---- MODULE Spec2Model ----
(***************************************************************************)
(* llamashell: the read-eval loop of src/src/llamashell/shell.py.          *)
(*                                                                         *)
(* The model follows main_loop, parse_input, execute_pipeline and          *)
(* execute_command.  One action is one non-blocking stretch of the         *)
(* interpreter: showing the prompt, reading a line (with its parse),       *)
(* one iteration of the executor's for loop (one execute_command call and  *)
(* what the executor does with its result), the return of a foreground     *)
(* child, the return of communicate().                                     *)
(*                                                                         *)
(* An input line is a sequence of lexemes: a word as typed, or the pipe    *)
(* character "|".  Paths are taken as absolute names; the file system is   *)
(* the set Dirs of directories and the set fs of regular files.            *)
(***************************************************************************)
EXTENDS Naturals, Sequences, FiniteSets

\* Python's None, as the value of an optional field or parameter.
None == "None"

\* ------------------------------------------------------------------ bounds

\* The size of an input line: its command words, its redirections and its
\* empty segments, counted together.
MaxUnits == 3
\* The length of a file past which the user no longer goes on typing lines.
MaxFileLen == 2
\* The number of lexemes of a line given to parse_input on its own.
MaxLineLen == 4

\* ------------------------------------------------------------- environment

TerminateWords == {"exit", "quit", "bye"}
interactive_commands ==
  {"vi", "vim", "ps", "top", "less", "nano", "more", "python", "python3"}
RedirOps == {"<", ">", ">>"}

\* Programs the OS can exec.  "nosuch" and "top" are not installed.
Installed == {"echo", "vi", "cat"}
\* The paths of regular files that the lines typed can name.
FileNames == {"f"}
\* What a program writes to its stdout, given what it reads from its stdin:
\* cat copies its input, any other program writes one item of its own.
ProgramOutput(name, input) == IF name = "cat" THEN input ELSE <<name>>
\* Directories that exist: the start directory, the home directory, "d".
Home == "~home"
StartDir == "/"
Dirs == {StartDir, Home, "d"}

\* ------------------------------------------------------------ input lines

\* What a user types for the command part of a stage.
CmdForms ==
  { <<"exit">>, <<"cd">>, <<"cd", "d">>, <<"cd", "f">>, <<"cd", "''">>,
    <<"vi">>, <<"top">>, <<"echo">>, <<"nosuch">> }

\* What a user types for the redirection part of a stage.
RedirForms ==
  { <<>>, <<"<", "f">>, <<">", "f">>, <<">>", "f">>, <<">", "''">>,
    <<">", "d">>, <<"<">>, <<">">>, <<">>">>,
    <<"<", "f", ">", "d">>, <<">", "f", ">>", "f">>, <<">>", "f", ">", "f">> }

\* What a user types for a segment with no command: nothing at all, a
\* redirection alone, an operator alone.
BareForms == { <<>>, <<">", "f">>, <<"<">> }

\* The number of redirection operators typed in a segment.
Redirections(seg) == Cardinality({ k \in 1..Len(seg) : seg[k] \in RedirOps })

\* A segment and its size: its command words plus its redirections, and 1
\* for an empty segment.
Segments ==
  { [lex |-> c \o r, units |-> Len(c) + Redirections(r)] :
      c \in CmdForms, r \in RedirForms }
  \cup { [lex |-> r, units |-> 1] : r \in BareForms }

RECURSIVE JoinPipe(_)
JoinPipe(segs) ==
  IF Len(segs) = 0 THEN <<>>
  ELSE IF Len(segs) = 1 THEN segs[1]
  ELSE segs[1] \o <<"|">> \o JoinPipe(Tail(segs))

\* The sequences of segments of at most b units in all.
RECURSIVE SegSeqs(_)
SegSeqs(b) ==
  IF b = 0 THEN {<<>>}
  ELSE {<<>>} \cup
       UNION { { <<s.lex>> \o r : r \in SegSeqs(b - s.units) } :
               s \in { x \in Segments : x.units <= b } }

\* The lines the user may type.
Lines == { JoinPipe(segs) : segs \in SegSeqs(MaxUnits) }

\* The lines of a user who works with one file: a command with at most one
\* redirection to or from it in each stage.
FileCmdForms == { <<"exit">>, <<"cd">>, <<"vi">>, <<"echo">>, <<"cat">> }
FileRedirForms == { <<>>, <<"<", "f">>, <<">", "f">>, <<">>", "f">> }
FileSegments ==
  { [lex |-> c \o r, units |-> Len(c) + Redirections(r)] :
      c \in FileCmdForms, r \in FileRedirForms }

RECURSIVE FileSegSeqs(_)
FileSegSeqs(b) ==
  IF b = 0 THEN {<<>>}
  ELSE {<<>>} \cup
       UNION { { <<s.lex>> \o r : r \in FileSegSeqs(b - s.units) } :
               s \in { x \in FileSegments : x.units <= b } }

FileLines == { JoinPipe(segs) : segs \in FileSegSeqs(MaxUnits) }

\* ------------------------------------------------------------ parse_input

\* Words typed with a pipe character inside quotes or after a backslash.
QuotedPipe == "'a|b'"
EscapedPipe == "a\\|b"

\* The lines handed to parse_input on its own: any lexemes in any order.
ParseLexemes ==
  {"echo", "f", "''", "<", ">", ">>", "|", QuotedPipe, EscapedPipe}
ParseLines == UNION { [1..n -> ParseLexemes] : n \in 0..MaxLineLen }

\* What str.split("|") makes of one lexeme that has a pipe character in
\* it: the text before the pipe and the text after it.
Fragments(lex) ==
  IF lex = QuotedPipe THEN <<"'a", "b'">>
  ELSE IF lex = EscapedPipe THEN <<"a\\", "b">>
  ELSE <<lex>>

\* str.split("|"): the text between the pipe characters, wherever they are.
RECURSIVE SplitPipe(_, _, _)
SplitPipe(line, k, cur) ==
  IF k > Len(line) THEN <<cur>>
  ELSE IF line[k] = "|" THEN <<cur>> \o SplitPipe(line, k + 1, <<>>)
  ELSE IF Len(Fragments(line[k])) = 2
  THEN <<Append(cur, Fragments(line[k])[1])>>
         \o SplitPipe(line, k + 1, <<Fragments(line[k])[2]>>)
  ELSE SplitPipe(line, k + 1, Append(cur, line[k]))

\* shlex.split of one word: quotes are removed, so '' is the empty string.
Unquote(lex) == IF lex = "''" THEN "" ELSE lex

\* The ValueError of shlex.split on one piece of the line, or None: the
\* piece ends inside a quotation, or on a backslash.
ShlexError(seg) ==
  IF Cardinality({ k \in 1..Len(seg) : seg[k] \in {"'a", "b'"} }) % 2 = 1
  THEN "No closing quotation"
  ELSE IF Len(seg) > 0 /\ seg[Len(seg)] = "a\\"
  THEN "No escaped character"
  ELSE None

\* shlex.split of a piece that has no such error.
Shlex(seg) == [k \in 1..Len(seg) |-> Unquote(seg[k])]

NoStage == [args |-> <<>>, input_file |-> None, output_file |-> None,
            append_file |-> None, err |-> None]

\* parse_input without its three raise statements: an operator with
\* nothing after it is kept as an argument.
RECURSIVE ScanTokensNoRaise(_, _, _)
ScanTokensNoRaise(cmd, k, st) ==
  IF ~(k <= Len(cmd)) THEN st
  ELSE IF cmd[k] = "<" /\ k + 1 <= Len(cmd) THEN
    ScanTokensNoRaise(cmd, k + 2, [st EXCEPT !.input_file = cmd[k + 1]])
  ELSE IF cmd[k] = ">" /\ k + 1 <= Len(cmd) THEN
    ScanTokensNoRaise(cmd, k + 2, [st EXCEPT !.output_file = cmd[k + 1]])
  ELSE IF cmd[k] = ">>" /\ k + 1 <= Len(cmd) THEN
    ScanTokensNoRaise(cmd, k + 2, [st EXCEPT !.append_file = cmd[k + 1]])
  ELSE ScanTokensNoRaise(cmd, k + 1, [st EXCEPT !.args = Append(@, cmd[k])])

\* parse_input with i += 1 after a redirection: the target is taken as the
\* file and then scanned again as a token of its own.
RECURSIVE ScanTokensKeepTarget(_, _, _)
ScanTokensKeepTarget(cmd, k, st) ==
  IF ~(k <= Len(cmd)) THEN st
  ELSE IF cmd[k] = "<" THEN
    IF k + 1 <= Len(cmd)
    THEN ScanTokensKeepTarget(cmd, k + 1,
                              [st EXCEPT !.input_file = cmd[k + 1]])
    ELSE [st EXCEPT !.err = "Missing input file after '<'"]
  ELSE IF cmd[k] = ">" THEN
    IF k + 1 <= Len(cmd)
    THEN ScanTokensKeepTarget(cmd, k + 1,
                              [st EXCEPT !.output_file = cmd[k + 1]])
    ELSE [st EXCEPT !.err = "Missing output file after '>'"]
  ELSE IF cmd[k] = ">>" THEN
    IF k + 1 <= Len(cmd)
    THEN ScanTokensKeepTarget(cmd, k + 1,
                              [st EXCEPT !.append_file = cmd[k + 1]])
    ELSE [st EXCEPT !.err = "Missing output file after '>>'"]
  ELSE ScanTokensKeepTarget(cmd, k + 1, [st EXCEPT !.args = Append(@, cmd[k])])

\* The while loop of parse_input over one segment's tokens.
RECURSIVE ScanTokens(_, _, _)
ScanTokens(cmd, k, st) ==
  IF ~(k <= Len(cmd)) THEN st
  ELSE IF cmd[k] = "<" THEN
    IF k + 1 <= Len(cmd)
    THEN ScanTokens(cmd, k + 2, [st EXCEPT !.input_file = cmd[k + 1]])
    ELSE [st EXCEPT !.err = "Missing input file after '<'"]
  ELSE IF cmd[k] = ">" THEN
    IF k + 1 <= Len(cmd)
    THEN ScanTokens(cmd, k + 2, [st EXCEPT !.output_file = cmd[k + 1]])
    ELSE [st EXCEPT !.err = "Missing output file after '>'"]
  ELSE IF cmd[k] = ">>" THEN
    IF k + 1 <= Len(cmd)
    THEN ScanTokens(cmd, k + 2, [st EXCEPT !.append_file = cmd[k + 1]])
    ELSE [st EXCEPT !.err = "Missing output file after '>>'"]
  ELSE ScanTokens(cmd, k + 1, [st EXCEPT !.args = Append(@, cmd[k])])

\* parse_input without its test "if cmd_args": a segment that leaves no
\* argument still makes a stage.
RECURSIVE ParseSegmentsKeepEmpty(_, _, _)
ParseSegmentsKeepEmpty(cmds, k, acc) ==
  IF k > Len(cmds) THEN [err |-> None, commands |-> acc]
  ELSE IF Len(cmds[k]) = 0 THEN ParseSegmentsKeepEmpty(cmds, k + 1, acc)
  ELSE LET st == ScanTokens(cmds[k], 1, NoStage) IN
    IF st.err # None THEN [err |-> st.err, commands |-> <<>>]
    ELSE ParseSegmentsKeepEmpty(cmds, k + 1,
           Append(acc, [args |-> st.args, input_file |-> st.input_file,
                        output_file |-> st.output_file,
                        append_file |-> st.append_file]))

\* The for loop of parse_input: err is the ValueError raised, or None.
RECURSIVE ParseSegments(_, _, _)
ParseSegments(cmds, k, acc) ==
  IF k > Len(cmds) THEN [err |-> None, commands |-> acc]
  ELSE IF Len(cmds[k]) = 0 THEN ParseSegments(cmds, k + 1, acc)
  ELSE LET st == ScanTokens(cmds[k], 1, NoStage) IN
    IF st.err # None THEN [err |-> st.err, commands |-> <<>>]
    ELSE IF Len(st.args) > 0
    THEN ParseSegments(cmds, k + 1,
           Append(acc, [args |-> st.args, input_file |-> st.input_file,
                        output_file |-> st.output_file,
                        append_file |-> st.append_file]))
    ELSE ParseSegments(cmds, k + 1, acc)

parse_input(user_input) ==
  LET segs == SplitPipe(user_input, 1, <<>>)
      bad == { k \in 1..Len(segs) : ShlexError(segs[k]) # None }
      commands == [k \in 1..Len(segs) |-> Shlex(segs[k])]
  IN IF bad # {}
     THEN [err |-> ShlexError(segs[CHOOSE k \in bad : \A j \in bad : k <= j]),
           commands |-> <<>>]
     ELSE ParseSegments(commands, 1, <<>>)


\* ------------------------------------------------------------------ state

VARIABLES
  pc,            \* where main_loop is: prompt, read, launch, fg, wait, terminated
  cwd,           \* os.getcwd(): the working directory of the shell process
  prompt,        \* the directory shown in the prompt displayed last
  fs,            \* the regular files that exist
  content,       \* what each regular file holds: a sequence of items
  user_input,    \* the line read last
  commands,      \* parse_input's result for it
  i,             \* execute_pipeline's loop index (1-based)
  processes,     \* execute_pipeline's list of Popen objects
  last_process,  \* index in processes of last_process, 0 for None
  open_files,    \* files execute_command opened and has not closed
  opened,        \* <<path, mode>> of every open() made for this line
  results,       \* what each execute_command call of this line returned
  waited,        \* the processes communicate() has waited for, by index
  spawned,       \* the programs exec'ed for this line, in order
  msg,           \* the diagnostic printed last for this line
  tty,           \* the stages whose stdout was delivered to the terminal
  farewell       \* how many times "Goodbye!" was printed

vars == <<pc, cwd, prompt, fs, content, user_input, commands, i, processes,
          last_process, open_files, opened, results, waited, spawned, msg,
          tty, farewell>>

Running == pc # "terminated"

\* Python truth of an optional string: None and "" are false.
Truthy(x) == x # None /\ x # ""

Init ==
  /\ pc = "prompt"
  /\ cwd = StartDir
  /\ prompt = None
  /\ fs = {}
  /\ content = [f \in FileNames |-> <<>>]
  /\ user_input = <<>>
  /\ commands = <<>>
  /\ i = 0
  /\ processes = <<>>
  /\ last_process = 0
  /\ open_files = {}
  /\ opened = {}
  /\ results = <<>>
  /\ waited = {}
  /\ spawned = <<>>
  /\ msg = None
  /\ tty = <<>>
  /\ farewell = 0

\* -------------------------------------------------------------- main_loop

\* session.prompt() displays the prompt: the message lambda reads os.getcwd().
\* The locals of the previous iteration are dead from here on.
ShowPrompt ==
  /\ pc = "prompt"
  /\ pc' = "read"
  /\ prompt' = cwd
  /\ user_input' = <<>>
  /\ commands' = <<>>
  /\ i' = 0
  /\ processes' = <<>>
  /\ last_process' = 0
  /\ open_files' = {}
  /\ opened' = {}
  /\ results' = <<>>
  /\ waited' = {}
  /\ spawned' = <<>>
  /\ msg' = None
  /\ tty' = <<>>
  /\ UNCHANGED <<cwd, fs, content, farewell>>

\* A line of the pool arrives: strip, parse_input, and the entry into
\* execute_pipeline.  The user stops typing once a file is MaxFileLen long.
ReadFrom(pool) ==
  /\ pc = "read"
  /\ \A f \in FileNames : Len(content[f]) <= MaxFileLen
  /\ \E line \in pool :
       /\ user_input' = line
       /\ IF Len(line) = 0
          THEN /\ pc' = "prompt"
               /\ UNCHANGED <<commands, i, msg>>
          ELSE LET r == parse_input(line) IN
            IF r.err # None
            THEN /\ pc' = "prompt"
                 /\ msg' = r.err
                 /\ UNCHANGED <<commands, i>>
            ELSE IF Len(r.commands) = 0
            THEN /\ pc' = "prompt"
                 /\ UNCHANGED <<commands, i, msg>>
            ELSE /\ pc' = "launch"
                 /\ commands' = r.commands
                 /\ i' = 1
                 /\ UNCHANGED msg
  /\ UNCHANGED <<cwd, prompt, fs, content, processes, last_process,
                 open_files, opened, results, waited, spawned, tty, farewell>>

ReadLine == ReadFrom(Lines)

\* EOFError at the prompt: break, then print("Goodbye!").
ReadEOF ==
  /\ pc = "read"
  /\ pc' = "terminated"
  /\ msg' = "Goodbye!"
  /\ farewell' = farewell + 1
  /\ UNCHANGED <<cwd, prompt, fs, content, waited, user_input, commands, i, processes,
                 last_process, open_files, opened, results, spawned, tty>>

\* KeyboardInterrupt where the shell blocks: at the prompt, in
\* subprocess.run of a foreground child, in communicate().
Interrupt ==
  /\ pc \in {"read", "fg", "wait"}
  /\ pc' = "prompt"
  /\ msg' = "^C"
  /\ UNCHANGED <<cwd, prompt, fs, content, waited, user_input, commands, i, processes,
                 last_process, open_files, opened, results, spawned, tty,
                 farewell>>


\* ------------------------------------------- execute_pipeline, per stage

\* stdin = last_process.stdout if last_process else None: the index of the
\* process whose stdout pipe object is passed, 0 for None.
StdinArg ==
  IF last_process = 0 THEN 0
  ELSE IF processes[last_process].stdout = "pipe" THEN last_process
  ELSE 0

\* The comparison off by one: the last stage gets a pipe too.
StdoutArgAlwaysPipe == IF i <= Len(commands) THEN "PIPE" ELSE None

\* stdout = subprocess.PIPE if i < len(commands) - 1 else None
StdoutArg == IF i < Len(commands) THEN "PIPE" ELSE None

\* The loop over processes left out: no pipe is closed.
CloseNone(procs) == procs

\* for p in processes: if p.stdout: p.stdout.close()
CloseAll(procs) ==
  [k \in 1..Len(procs) |->
     IF procs[k].stdout = "pipe" THEN [procs[k] EXCEPT !.handle = "closed"]
     ELSE procs[k]]

\* execute_pipeline without its last return True: it returns None, which
\* main_loop takes for False.
AfterStageNoReturn(procs) ==
  IF i < Len(commands) THEN "launch"
  ELSE IF Len(procs) > 0 THEN "wait"
  ELSE "terminated"

\* The executor after a result of True (continue) or a process (append):
\* the next iteration, or the code after the loop.
AfterStage(procs) ==
  IF i < Len(commands) THEN "launch"
  ELSE IF Len(procs) > 0 THEN "wait"
  ELSE "prompt"

NextIndex == IF i < Len(commands) THEN i + 1 ELSE i

\* continue instead of return True: the executor goes round its loop again.
AfterFailedContinue(procs) == IF i < Len(commands) THEN "launch" ELSE "prompt"

\* break instead of return True: the executor goes on to communicate().
AfterFailedBreak(procs) == IF Len(procs) > 0 THEN "wait" ELSE "prompt"

\* The executor after a result of None: the pipes are closed and it
\* returns True, so main_loop goes round again.
AfterFailed(procs) == "prompt"

\* ---------------------------------------------------- execute_command

IsTerminate(st) == st.args[1] \in TerminateWords
IsCd(st) == ~IsTerminate(st) /\ st.args[1] = "cd"
IsInteractive(st) ==
  ~IsTerminate(st) /\ ~IsCd(st) /\ st.args[1] \in interactive_commands
IsExternal(st) == ~IsTerminate(st) /\ ~IsCd(st) /\ ~IsInteractive(st)

\* target = args[1] if len(args) > 1 else os.path.expanduser("~")
CdTarget(st) == IF Len(st.args) > 1 THEN st.args[2] ELSE Home

\* os.chdir(target) raises unless target is a directory.
ChdirOk(target) == target \in Dirs

\* cd that records its target without looking at what os.chdir did.
CdResultUnchecked(st, dir) ==
  IF CdTarget(st) = "" THEN dir ELSE CdTarget(st)

\* cd that takes an empty target for a missing one and goes home.
CdResultEmptyHome(st, dir) ==
  IF CdTarget(st) = "" THEN Home
  ELSE IF ChdirOk(CdTarget(st)) THEN CdTarget(st)
  ELSE dir

\* What cd leaves as the working directory.
CdResult(st, dir) ==
  IF CdTarget(st) = "" THEN dir
  ELSE IF ChdirOk(CdTarget(st)) THEN CdTarget(st)
  ELSE dir

\* if input_file or output_file or append_file or stdin
Rejected(st, stdin) ==
  Truthy(st.input_file) \/ Truthy(st.output_file) \/ Truthy(st.append_file)
    \/ stdin # 0

\* An exit stage that tidies up first: it waits for the last process and
\* closes the pipes, as the code after the loop does.
LaunchTerminateReap ==
  /\ pc = "launch"
  /\ commands[i].args[1] \in TerminateWords
  /\ pc' = "terminated"
  /\ results' = Append(results, "Terminate")
  /\ msg' = "Goodbye!"
  /\ farewell' = farewell + 1
  /\ processes' = CloseAll(processes)
  /\ waited' = IF Len(processes) > 0 THEN {Len(processes)} ELSE {}
  /\ UNCHANGED <<cwd, prompt, fs, content, user_input, commands, i,
                 last_process, open_files, opened, spawned, tty>>

\* The farewell printed in the exit branch as well as after the loop.
LaunchTerminateTwice ==
  /\ pc = "launch"
  /\ commands[i].args[1] \in TerminateWords
  /\ pc' = "terminated"
  /\ results' = Append(results, "Terminate")
  /\ msg' = "Goodbye!"
  /\ farewell' = farewell + 2
  /\ UNCHANGED <<cwd, prompt, fs, content, waited, user_input, commands, i, processes,
                 last_process, open_files, opened, spawned, tty>>

\* args[0] in ["exit", "quit", "bye"]: return False; the executor returns
\* False, main_loop breaks and prints the farewell.
LaunchTerminate ==
  /\ pc = "launch"
  /\ IsTerminate(commands[i])
  /\ pc' = "terminated"
  /\ results' = Append(results, "Terminate")
  /\ msg' = "Goodbye!"
  /\ farewell' = farewell + 1
  /\ UNCHANGED <<cwd, prompt, fs, content, waited, user_input, commands, i, processes,
                 last_process, open_files, opened, spawned, tty>>

\* args[0] == "cd": always returns True.
LaunchCd ==
  /\ pc = "launch"
  /\ IsCd(commands[i])
  /\ cwd' = CdResult(commands[i], cwd)
  /\ msg' = IF CdTarget(commands[i]) = "" THEN "cd: missing directory"
            ELSE IF ChdirOk(CdTarget(commands[i])) THEN msg
            ELSE "cd: error"
  /\ results' = Append(results, "Continue")
  /\ pc' = AfterStage(processes)
  /\ i' = NextIndex
  /\ UNCHANGED <<prompt, fs, content, waited, user_input, commands, processes, last_process,
                 open_files, opened, spawned, tty, farewell>>

\* An interactive command: rejected, or handed to subprocess.run, which
\* fails to exec or leaves the child in the foreground.
LaunchInteractive ==
  /\ pc = "launch"
  /\ IsInteractive(commands[i])
  /\ IF Rejected(commands[i], StdinArg)
     THEN /\ msg' = "Interactive commands cannot use redirection or pipes"
          /\ results' = Append(results, "Continue")
          /\ pc' = AfterStage(processes)
          /\ i' = NextIndex
          /\ UNCHANGED spawned
     ELSE IF commands[i].args[1] \notin Installed
     THEN /\ msg' = "command not found"
          /\ results' = Append(results, "Continue")
          /\ pc' = AfterStage(processes)
          /\ i' = NextIndex
          /\ UNCHANGED spawned
     ELSE \/ /\ pc' = "fg"
             /\ spawned' = Append(spawned, commands[i].args[1])
             /\ UNCHANGED <<msg, results, i>>
          \/ /\ msg' = "Error: exec failed"
             /\ results' = Append(results, "Continue")
             /\ pc' = AfterStage(processes)
             /\ i' = NextIndex
             /\ UNCHANGED spawned
  /\ UNCHANGED <<cwd, prompt, fs, content, waited, user_input, commands, processes,
                 last_process, open_files, opened, tty, farewell>>

\* A foreground child's non-zero exit status taken for a failed stage: the
\* executor gives the line up.
FgExitStopsOnError ==
  /\ pc = "fg"
  /\ \E code \in {0, 1} :
       /\ msg' = IF code = 0 THEN msg ELSE "Error: non-zero exit status"
       /\ results' = Append(results, IF code = 0 THEN "Continue" ELSE "Failed")
       /\ pc' = IF code = 0 THEN AfterStage(processes) ELSE "prompt"
       /\ i' = IF code = 0 THEN NextIndex ELSE i
  /\ UNCHANGED <<cwd, prompt, fs, content, waited, user_input, commands,
                 processes, last_process, open_files, opened, spawned, tty,
                 farewell>>

\* subprocess.run returns: exit status 0, or CalledProcessError.
FgExit ==
  /\ pc = "fg"
  /\ \E code \in {0, 1} :
       msg' = IF code = 0 THEN msg ELSE "Error: non-zero exit status"
  /\ results' = Append(results, "Continue")
  /\ pc' = AfterStage(processes)
  /\ i' = NextIndex
  /\ UNCHANGED <<cwd, prompt, fs, content, waited, user_input, commands, processes,
                 last_process, open_files, opened, spawned, tty, farewell>>


\* stdin_file = stdin if stdin else (open(input_file, "r") if input_file
\* else None): whether the launcher opens input_file itself.
OpensInput(st, stdin) == stdin = 0 /\ Truthy(st.input_file)

\* stdout_file = open(output_file, "w") if output_file
\*               else open(append_file, "a") if append_file else stdout
OutTarget(st) ==
  IF Truthy(st.output_file) THEN st.output_file
  ELSE IF Truthy(st.append_file) THEN st.append_file
  ELSE None

\* Every output file opened for append.
OutModeAlwaysAppend(st) == "a"

OutMode(st) == IF Truthy(st.output_file) THEN "w" ELSE "a"

\* The stdout parameter before the redirection fields.
StdoutKindPipeFirst(st, stdout) ==
  IF stdout = "PIPE" THEN "pipe"
  ELSE IF OutTarget(st) # None THEN "file"
  ELSE "inherit"

\* Where the child's stdout goes: a file, a new pipe, or the terminal.
StdoutKind(st, stdout) ==
  IF OutTarget(st) # None THEN "file"
  ELSE IF stdout = "PIPE" THEN "pipe"
  ELSE "inherit"

\* open(path, "r") needs a regular file; open(path, "w"/"a") creates one
\* unless the path is a directory.
OpenReadOk(path) == path \in fs
OpenWriteOk(path) == path \notin Dirs

\* subprocess.Popen: the exec succeeds, fails with FileNotFoundError, or
\* fails with another exception (OS refusal, a closed stdin object).
PopenOutcomes(st, stdin) ==
  IF stdin # 0 /\ processes[stdin].handle = "closed" THEN {"error"}
  ELSE IF st.args[1] \in Installed THEN {"spawned", "error"}
  ELSE {"notfound"}

\* The files the finally block closes, of those the launcher opened.
ClosedInFinally(st, stdin) ==
  (IF OpensInput(st, stdin) THEN {st.input_file} ELSE {})
    \cup (IF OutTarget(st) # None THEN {OutTarget(st)} ELSE {})

\* if input_file and stdin_file: stdin_file.close() -- with a piped stdin
\* this closes the upstream process's stdout object.
CloseUpstream(st, stdin, procs) ==
  IF Truthy(st.input_file) /\ stdin # 0
  THEN [procs EXCEPT ![stdin].handle = "closed"]
  ELSE procs

\* What the files hold once the launcher's open() calls are done: mode "w"
\* truncates the target, mode "a" leaves it as it is.
AfterOpen(st) ==
  IF OutTarget(st) \in FileNames /\ OutMode(st) = "w"
  THEN [content EXCEPT ![OutTarget(st)] = <<>>]
  ELSE content

\* What the child reads from its stdin: the upstream process's output, the
\* input file as the open() calls left it, or nothing from the terminal.
InputData(st, stdin) ==
  IF stdin # 0 THEN processes[stdin].out
  ELSE IF OpensInput(st, stdin) /\ st.input_file \in FileNames
       THEN AfterOpen(st)[st.input_file]
       ELSE <<>>

\* What the files hold once the child has written its output to stdout_file.
AfterWrite(st, stdin) ==
  IF OutTarget(st) \in FileNames
  THEN [AfterOpen(st) EXCEPT ![OutTarget(st)] =
          @ \o ProgramOutput(st.args[1], InputData(st, stdin))]
  ELSE content

NewProcess(st, stdin, stdout) ==
  [name |-> st.args[1],
   stage |-> i,
   stdin_kind |-> IF stdin # 0 THEN "pipe"
                  ELSE IF Truthy(st.input_file) THEN "file" ELSE "inherit",
   stdin_pipe |-> stdin,
   stdin_file |-> IF OpensInput(st, stdin) THEN st.input_file ELSE None,
   stdout |-> StdoutKind(st, stdout),
   stdout_file |-> OutTarget(st),
   stdout_mode |-> IF OutTarget(st) # None THEN OutMode(st) ELSE None,
   handle |-> IF StdoutKind(st, stdout) = "pipe" THEN "open" ELSE "none",
   out |-> ProgramOutput(st.args[1], InputData(st, stdin))]

\* A pipeable external command: the two open() calls, Popen, the finally
\* block, and the executor's handling of the process or of None.
LaunchExternal ==
  /\ pc = "launch"
  /\ IsExternal(commands[i])
  /\ LET st == commands[i]
         stdin == StdinArg
         stdout == StdoutArg
         inOpen == IF OpensInput(st, stdin) THEN {st.input_file} ELSE {}
         outOpen == IF OutTarget(st) # None THEN {OutTarget(st)} ELSE {}
     IN
     IF OpensInput(st, stdin) /\ ~OpenReadOk(st.input_file)
     THEN \* open(input_file) raises: caught by main_loop's except Exception
          /\ pc' = "prompt"
          /\ msg' = "Unexpected error"
          /\ results' = Append(results, "Raised")
          /\ opened' = opened \cup {<<st.input_file, "r">>}
          /\ UNCHANGED <<fs, content, i, processes, last_process,
                         open_files, spawned, tty>>
     ELSE IF OutTarget(st) # None /\ ~OpenWriteOk(OutTarget(st))
     THEN \* open(output) raises after input_file was opened
          /\ pc' = "prompt"
          /\ msg' = "Unexpected error"
          /\ results' = Append(results, "Raised")
          /\ opened' = opened \cup { <<f, "r">> : f \in inOpen }
                              \cup {<<OutTarget(st), OutMode(st)>>}
          /\ open_files' = open_files \cup inOpen
          /\ UNCHANGED <<fs, content, i, processes, last_process, spawned,
                         tty>>
     ELSE \E outcome \in PopenOutcomes(st, stdin) :
          /\ opened' = opened \cup { <<f, "r">> : f \in inOpen }
                              \cup { <<f, OutMode(st)>> : f \in outOpen }
          /\ fs' = fs \cup outOpen
          /\ open_files' = (open_files \cup inOpen \cup outOpen)
                              \ ClosedInFinally(st, stdin)
          /\ IF outcome = "spawned"
             THEN LET procs == Append(CloseUpstream(st, stdin, processes),
                                      NewProcess(st, stdin, stdout))
                  IN /\ processes' = procs
                     /\ last_process' = Len(procs)
                     /\ results' = Append(results, "Spawned")
                     /\ spawned' = Append(spawned, st.args[1])
                     /\ content' = AfterWrite(st, stdin)
                     /\ tty' = IF StdoutKind(st, stdout) = "inherit"
                               THEN Append(tty, i) ELSE tty
                     /\ pc' = AfterStage(procs)
                     /\ i' = NextIndex
                     /\ UNCHANGED msg
             ELSE /\ processes' = CloseAll(CloseUpstream(st, stdin, processes))
                  /\ results' = Append(results, "Failed")
                  /\ msg' = IF outcome = "notfound" THEN "command not found"
                            ELSE "Error: exec failed"
                  /\ pc' = AfterFailed(processes)
                  /\ content' = AfterOpen(st)
                  /\ UNCHANGED <<i, last_process, spawned, tty>>
  /\ UNCHANGED <<cwd, prompt, user_input, commands, waited, farewell>>

\* processes[-1].communicate() returns: print its captured stdout and its
\* stderr, close every stdout pipe, return True.
WaitDone ==
  /\ pc = "wait"
  /\ LET last == processes[Len(processes)] IN
       tty' = IF last.stdout = "pipe" THEN Append(tty, last.stage) ELSE tty
  /\ \E stderr \in BOOLEAN : msg' = IF stderr THEN "stderr" ELSE msg
  /\ waited' = {Len(processes)}
  /\ processes' = CloseAll(processes)
  /\ pc' = "prompt"
  /\ UNCHANGED <<cwd, prompt, fs, content, user_input, commands, i,
                 last_process, open_files, opened, results, spawned, farewell>>

LaunchStage ==
  LaunchTerminate \/ LaunchCd \/ LaunchInteractive \/ LaunchExternal

Next ==
  \/ ShowPrompt
  \/ ReadLine
  \/ ReadEOF
  \/ Interrupt
  \/ LaunchStage
  \/ FgExit
  \/ WaitDone

Spec == Init /\ [][Next]_vars


\* The interpreter runs the launcher calls and shows the prompt without
\* waiting for anything; a child's exit and the user's next line may never
\* come.
FairSpec == Spec /\ WF_vars(LaunchStage) /\ WF_vars(ShowPrompt)

\* The session of a user who types the lines of FileLines.
ReadFileLine == ReadFrom(FileLines)

RoundTripNext ==
  \/ ShowPrompt
  \/ ReadFileLine
  \/ ReadEOF
  \/ Interrupt
  \/ LaunchStage
  \/ FgExit
  \/ WaitDone

RoundTripSpec == Init /\ [][RoundTripNext]_vars

\* parse_input on its own: a line is given, and parse_input is applied.
ParseInit ==
  /\ pc = "parse"
  /\ user_input \in ParseLines
  /\ cwd = StartDir
  /\ prompt = None
  /\ fs = {}
  /\ content = [f \in FileNames |-> <<>>]
  /\ commands = <<>>
  /\ i = 0
  /\ processes = <<>>
  /\ last_process = 0
  /\ open_files = {}
  /\ opened = {}
  /\ results = <<>>
  /\ waited = {}
  /\ spawned = <<>>
  /\ msg = None
  /\ tty = <<>>
  /\ farewell = 0

ApplyParse ==
  /\ pc = "parse"
  /\ pc' = "parsed"
  /\ LET r == parse_input(user_input) IN
       /\ commands' = r.commands
       /\ msg' = r.err
  /\ UNCHANGED <<cwd, prompt, fs, content, user_input, i, processes,
                 last_process, open_files, opened, results, waited, spawned,
                 tty, farewell>>

ParseNext == ApplyParse

ParseSpec == ParseInit /\ [][ParseNext]_vars

\* ================================================================ claims

\* The segments of the line read last, word-split.
InputSegments ==
  LET segs == SplitPipe(user_input, 1, <<>>)
  IN [k \in 1..Len(segs) |-> Shlex(segs[k])]

\* The number of redirection operators at the end of a token list.
RECURSIVE TrailingOps(_)
TrailingOps(toks) ==
  IF Len(toks) = 0 THEN 0
  ELSE IF toks[Len(toks)] \in RedirOps
  THEN 1 + TrailingOps(SubSeq(toks, 1, Len(toks) - 1))
  ELSE 0

\* The last token is an operator with no target: the operators at the end
\* pair up as operator and target, and one is left over.
Dangling(toks) == TrailingOps(toks) % 2 = 1

ParseErrors ==
  { "Missing input file after '<'", "Missing output file after '>'",
    "Missing output file after '>>'" }

\* C1: the loop leaves Running only at the read step (end of input) or in
\* the launch of a stage whose first argument is exit, quit or bye; a step
\* on which main_loop catches an error (a parse error, an interrupt, any
\* other exception) ends at the prompt, and a step on which the launcher
\* reports an error (spawn failure, cd failure, non-zero exit) stays Running.
C1_LeavesRunningOnlyOnExitOrEof ==
  [][ /\ (Running /\ ~Running') =>
            \/ pc = "read"
            \/ pc = "launch" /\ commands[i].args[1] \in TerminateWords
      /\ (msg' \in ParseErrors \cup {"^C", "Unexpected error"}) =>
            pc' = "prompt"
      /\ (msg' \in {"command not found", "Error: exec failed", "cd: error",
                    "cd: missing directory", "Error: non-zero exit status",
                    "stderr"}) => Running'
    ]_vars

\* C1 witness: an exception of the evaluation (a redirection target that
\* cannot be opened) was caught and the loop is at the prompt again.
C1_Witness ==
  pc = "prompt" /\ msg = "Unexpected error" /\ results = <<"Raised">>

\* C2: while the line read last has a segment ending in an operator with no
\* target, parse_input has failed with its ValueError and nothing of the
\* line has run: no launcher call, no process, no open(), no cd.
C2_DanglingRedirectRunsNothing ==
  (\E k \in 1..Len(InputSegments) : Dangling(InputSegments[k])) =>
     /\ pc = "prompt"
     /\ msg \in ParseErrors
     /\ commands = <<>>
     /\ results = <<>>
     /\ spawned = <<>>
     /\ processes = <<>>
     /\ opened = {}
     /\ open_files = {}
     /\ cwd = prompt

\* C2 witness: the faulty segment follows a segment that is a cd.
C2_Witness ==
  /\ Len(InputSegments) = 2
  /\ InputSegments[1] = <<"cd">>
  /\ Dangling(InputSegments[2])
  /\ msg \in ParseErrors

\* A 3-stage pipeline whose first stage is a pipeable command or cd and
\* whose middle stage is a pipeable command that is not installed.
MiddleMissing ==
  /\ Len(commands) = 3
  /\ commands[1].args[1] \notin TerminateWords \cup interactive_commands
  /\ commands[2].args[1] \notin
       TerminateWords \cup interactive_commands \cup {"cd"} \cup Installed

\* C3: on such a pipeline the shell never blocks on a process (neither in
\* communicate() nor on a foreground child) and the loop never terminates,
\* and from its launch the shell is eventually at the read step again.
C3_MiddleMissingReturns ==
  /\ [](MiddleMissing => pc \in {"launch", "prompt"})
  /\ ((MiddleMissing /\ pc = "launch") ~> (pc = "read"))

\* C3 witness: the first stage was spawned, the middle one failed, and the
\* executor has returned.
C3_Witness ==
  /\ MiddleMissing
  /\ pc = "prompt"
  /\ results = <<"Spawned", "Failed">>
  /\ spawned = <<"echo">>


\* C4: outside a launcher call no file that the launcher opened for a
\* redirection is still open.
C4_RedirectionHandlesClosed == open_files = {}

\* The stage has a redirection field set by parse_input.
Declares(st) ==
  st.input_file # None \/ st.output_file # None \/ st.append_file # None

\* C5: the launch of an interactive command whose stage declares a
\* redirection or gets an upstream pipe returns Continue with nothing
\* spawned and no file opened or created; an interactive command goes to the
\* foreground only from a stage with no redirection and no upstream pipe.
C5_InteractiveWithRedirectionRejected ==
  [][ /\ ( /\ pc = "launch"
           /\ commands[i].args[1] \in interactive_commands
           /\ (Declares(commands[i]) \/ StdinArg # 0) ) =>
              /\ pc' # "fg"
              /\ spawned' = spawned
              /\ opened' = opened
              /\ fs' = fs
              /\ results' = Append(results, "Continue")
      /\ (pc # "fg" /\ pc' = "fg") =>
              ~Declares(commands[i]) /\ StdinArg = 0
    ]_vars

\* os.chdir would refuse the target of this cd stage, or the target is empty.
CdFails(st) ==
  LET target == IF Len(st.args) > 1 THEN st.args[2] ELSE Home
  IN target = "" \/ target \notin Dirs

\* C6: the launch of a cd stage that fails leaves the working directory as
\* it was, prints a diagnostic and returns Continue; after a line that is
\* only such a stage the next prompt shows what the previous one showed.
C6_FailedCdKeepsDirectory ==
  [][ /\ (pc = "launch" /\ commands[i].args[1] = "cd" /\ CdFails(commands[i])) =>
              /\ cwd' = cwd
              /\ results' = Append(results, "Continue")
              /\ msg' \in {"cd: error", "cd: missing directory"}
              /\ Running'
      /\ ( /\ pc = "prompt"
           /\ Len(commands) = 1
           /\ commands[1].args[1] = "cd"
           /\ CdFails(commands[1]) ) => prompt' = prompt
    ]_vars

\* C6 witness: a failed cd, as the only stage, from a directory the shell
\* had moved to before.
C6_Witness ==
  /\ pc = "prompt"
  /\ Len(commands) = 1
  /\ commands[1].args = <<"cd", "f">>
  /\ results = <<"Continue">>
  /\ msg = "cd: error"
  /\ cwd = "d"
  /\ prompt = "d"

\* C7: the working directory changes only in the launch of a cd stage whose
\* target os.chdir accepts, and it becomes that target.
C7_OnlyCdChangesDirectory ==
  [][ cwd' # cwd =>
        /\ pc = "launch"
        /\ commands[i].args[1] = "cd"
        /\ ~CdFails(commands[i])
        /\ cwd' = (IF Len(commands[i].args) > 1 THEN commands[i].args[2]
                   ELSE Home)
    ]_vars

\* C7 witness: a cd changed the directory, and a later stage of the same
\* line was spawned in it.
C7_Witness ==
  cwd = "d" /\ prompt = StartDir /\ spawned = <<"echo">>

\* C8: the launch of exit as the only stage takes the loop to Terminated;
\* the farewell has been printed once when the loop is Terminated and not
\* at all before; nothing happens once it is Terminated (no line is read).
C8_ExitTerminatesOnce ==
  [][ /\ ( /\ pc = "launch"
           /\ Len(commands) = 1
           /\ commands[1].args[1] \in TerminateWords ) => pc' = "terminated"
      /\ (pc' = "terminated") => farewell' = 1
      /\ (pc' # "terminated") => farewell' = 0
      /\ (pc = "terminated") => UNCHANGED vars
    ]_vars

\* C8 witness: the loop has terminated on a line that was only exit.
C8_Witness ==
  /\ pc = "terminated"
  /\ user_input = <<"exit">>
  /\ results = <<"Terminate">>
  /\ farewell = 1

\* The last of the operators > and >> in a token list.
LastOutOp(toks) ==
  LET at == { k \in 1..Len(toks) : toks[k] \in {">", ">>"} }
  IN toks[CHOOSE k \in at : \A m \in at : m <= k]

\* C9: no stage has both output_file and append_file set; a stage typed
\* with both > and >> writes through the one typed later.
C9_AtMostOneOutputTarget ==
  /\ \A k \in 1..Len(commands) :
       ~(commands[k].output_file # None /\ commands[k].append_file # None)
  /\ ( /\ Len(InputSegments) = 1
       /\ Len(processes) = 1
       /\ \E k \in 1..Len(InputSegments[1]) : InputSegments[1][k] = ">"
       /\ \E k \in 1..Len(InputSegments[1]) : InputSegments[1][k] = ">>" ) =>
         processes[1].stdout_mode =
           (IF LastOutOp(InputSegments[1]) = ">" THEN "w" ELSE "a")

\* Every stage is a pipeable external command with no redirection.
PlainPipeline ==
  /\ Len(commands) > 0
  /\ \A k \in 1..Len(commands) :
       /\ commands[k].args[1] \notin
            TerminateWords \cup interactive_commands \cup {"cd"}
       /\ ~Declares(commands[k])

\* C10: in such a pipeline the k-th process is stage k; the first reads the
\* terminal and every later one reads the stdout pipe of the one before it;
\* every stage but the last writes to a pipe and the last to the terminal;
\* nothing but the last stage's output is delivered to the terminal, and
\* that once when the executor has returned with every stage spawned.
C10_PipelineWiring ==
  PlainPipeline =>
    /\ \A p \in 1..Len(processes) :
         /\ processes[p].stage = p
         /\ processes[p].stdin_kind = (IF p = 1 THEN "inherit" ELSE "pipe")
         /\ processes[p].stdin_pipe = p - 1
         /\ processes[p].stdout =
              (IF p < Len(commands) THEN "pipe" ELSE "inherit")
    /\ tty \in {<<>>, <<Len(commands)>>}
    /\ Len(processes) = Len(commands) => tty = <<Len(commands)>>

\* C10 witness: a two-stage pipeline has run to completion.
C10_Witness ==
  /\ PlainPipeline
  /\ pc = "prompt"
  /\ Len(commands) = 2
  /\ results = <<"Spawned", "Spawned">>
  /\ processes[1].handle = "closed"
  /\ tty = <<2>>

\* What the terminal shows of the line's output: the output of the stages
\* whose stdout reached it, in the order tty lists them.
RECURSIVE Shown(_)
Shown(t) ==
  IF t = <<>> THEN <<>>
  ELSE LET p == CHOOSE q \in { processes[k] : k \in 1..Len(processes) } :
                  q.stage = t[1]
       IN p.out \o Shown(Tail(t))

\* The one-stage line typed last was executed to completion: its process
\* was spawned, communicate() returned and the executor with it.
Completed(line) ==
  /\ user_input = line
  /\ pc = "prompt"
  /\ results = <<"Spawned">>
  /\ waited = {1}

\* The launch of the one stage of the line typed last.
LaunchOf(line) ==
  /\ user_input = line
  /\ pc = "launch"
  /\ results' = <<"Spawned">>

\* C11: once "cmd > f" has run to completion f holds exactly what cmd
\* wrote, whatever f held before; "cmd >> f" adds what cmd wrote to the end
\* of what f held; and "cat < f", run to completion, shows on the terminal
\* exactly what f holds.
C11_RedirectionRoundTrip ==
  [][ /\ \A c \in {"echo", "cat"} :
          /\ LaunchOf(<<c, ">", "f">>) =>
                content'["f"] = processes'[1].out
          /\ Completed(<<c, ">", "f">>) =>
                content["f"] = processes[1].out
          /\ LaunchOf(<<c, ">>", "f">>) =>
                content'["f"] = content["f"] \o processes'[1].out
      /\ Completed(<<"cat", "<", "f">>)' =>
            /\ Shown(tty)' = content'["f"]
            /\ content'["f"] = content["f"]
            /\ processes'[1].out = content["f"] ]_vars

\* "cat < f" has shown the two items that "> f" and then ">> f" left in f.
C11_Witness ==
  /\ Completed(<<"cat", "<", "f">>)
  /\ Shown(tty) = <<"echo", "echo">>
  /\ content["f"] = <<"echo", "echo">>

\* The number of redirection operators that stand in a row just before
\* token k.
RECURSIVE OpsBefore(_, _)
OpsBefore(toks, k) ==
  IF k = 1 THEN 0
  ELSE IF toks[k - 1] \in RedirOps THEN 1 + OpsBefore(toks, k - 1)
  ELSE 0

\* Token k is the target of a redirection: in a row of operators the first
\* acts as an operator, the second is its target, and so on in turn.
IsTarget(toks, k) == OpsBefore(toks, k) % 2 = 1

\* Token k is plain: neither a redirection operator nor the token that
\* follows one.
IsPlain(toks, k) == toks[k] \notin RedirOps /\ ~IsTarget(toks, k)

\* Lexeme k of the line is a redirection operator that lacks its target:
\* the line or the piece ends after it.
LacksTarget(line, k) ==
  /\ line[k] \in RedirOps
  /\ ~IsTarget(line, k)
  /\ (k = Len(line) \/ line[k + 1] = "|")

\* The line read last has no plain token in any segment, and no operator
\* that lacks its target: it is blank, or pipes and redirections only.
\* (A pipe is no operator, so the operators counted before a lexeme are
\* those of its own segment.)
NoArgLine ==
  \A k \in 1..Len(user_input) :
     /\ user_input[k] = "|" \/ ~IsPlain(user_input, k)
     /\ ~LacksTarget(user_input, k)

\* C12: a line that is read and has no plain token in any segment (a blank
\* line, pipes alone, redirections alone) runs nothing: the loop is at the
\* prompt again with no stage, no process, no open(), no file created or
\* changed, nothing printed, and it is still Running.
C12_NoArgLineRunsNothing ==
  [][ (pc = "read" /\ pc' # "terminated" /\ msg' # "^C" /\ NoArgLine') =>
        /\ pc' = "prompt"
        /\ Running'
        /\ msg' = None
        /\ commands' = <<>>
        /\ processes' = <<>> /\ spawned' = <<>> /\ results' = <<>>
        /\ opened' = {} /\ open_files' = open_files
        /\ tty' = <<>>
        /\ UNCHANGED <<fs, content, cwd, farewell>> ]_vars

\* A redirection alone in each of two segments was read; f was not created.
C12_Witness ==
  /\ user_input = <<">", "f", "|", ">", "f">>
  /\ pc = "prompt"
  /\ "f" \notin fs

\* C13 as stated: the downstream pipe comes first, so every process of a
\* stage that is not the last one writes to a pipe.
C13_PipeBeforeRedirection ==
  \A k \in 1..Len(processes) :
     processes[k].stage < Len(commands) => processes[k].stdout = "pipe"

\* C13: the stdout of a spawned external stage is output_file opened for
\* write if that is non-empty, otherwise append_file opened for append if
\* that is non-empty, otherwise the downstream pipe if the stage is not the
\* last one, otherwise the shell's own stdout; and the stage after a stage
\* that writes to a file does not read from a pipe.
C13_RedirectionBeforePipe ==
  \A k \in 1..Len(processes) :
     LET p == processes[k]
         st == commands[p.stage]
     IN /\ p.stdout =
             IF Truthy(st.output_file) \/ Truthy(st.append_file) THEN "file"
             ELSE IF p.stage < Len(commands) THEN "pipe"
             ELSE "inherit"
        /\ Truthy(st.output_file) =>
             p.stdout_file = st.output_file /\ p.stdout_mode = "w"
        /\ (~Truthy(st.output_file) /\ Truthy(st.append_file)) =>
             p.stdout_file = st.append_file /\ p.stdout_mode = "a"
        /\ (k > 1 /\ processes[k - 1].stdout = "file") =>
             p.stdin_kind # "pipe" /\ p.stdin_pipe = 0

\* The first of two stages wrote to f, the second was given no pipe.
C13_Witness ==
  /\ Len(commands) = 2
  /\ Len(processes) = 2
  /\ processes[1].stage = 1
  /\ processes[1].stdout = "file"
  /\ processes[1].handle = "none"
  /\ processes[2].stdin_kind = "inherit"

\* C14: the launch of an exit, quit or bye stage, at any position, ends the
\* executor at once: the loop is terminated, no stage after it is launched
\* (the launcher was called once for each stage up to it and never again),
\* and the step leaves every spawned process as it was: not waited for, no
\* pipe handle closed.
C14_TerminateReturnsAtOnce ==
  [][ /\ (pc = "launch" /\ commands[i].args[1] \in TerminateWords) =>
            /\ pc' = "terminated"
            /\ results' = Append(results, "Terminate")
            /\ Len(results') = i
            /\ processes' = processes
            /\ waited' = {} /\ waited = {}
            /\ UNCHANGED <<spawned, last_process, i, tty>>
      /\ (pc = "terminated") =>
            UNCHANGED <<results, spawned, processes, waited>> ]_vars

\* The exit stage was the second of three: the first stage's process is
\* there with its pipe handle open, and the third stage never ran.
C14_Witness ==
  /\ pc = "terminated"
  /\ Len(commands) = 3
  /\ results = <<"Spawned", "Terminate">>
  /\ processes[1].handle = "open"
  /\ waited = {}

\* C15: when a stage fails to spawn, the executor is left with every pipe
\* handle of the processes spawned before closed, the one of the process
\* just before it among them; it has waited for none, and the loop shows
\* the next prompt (the executor returned True).
C15_FailedClosesPipes ==
  [][ (pc = "launch" /\ results' = Append(results, "Failed")) =>
        /\ pc' = "prompt"
        /\ Running'
        /\ Len(processes') = Len(processes)
        /\ \A k \in 1..Len(processes') :
              /\ processes'[k].handle # "open"
              /\ processes[k].handle = "open" =>
                    processes'[k].handle = "closed"
        /\ waited' = {} ]_vars

\* The third stage failed after two were spawned; both pipes are closed.
C15_Witness ==
  /\ results = <<"Spawned", "Spawned", "Failed">>
  /\ Len(processes) = 2
  /\ processes[1].handle = "closed"
  /\ processes[2].handle = "closed"
  /\ pc = "prompt"

\* C16: while the executor waits for the last process spawned it has
\* closed no pipe handle; when the wait is over it has waited for that
\* process and no other, and the handles are closed.
C16_ClosesOnlyAfterWait ==
  /\ (pc = "wait") =>
        /\ waited = {}
        /\ \A k \in 1..Len(processes) : processes[k].handle # "closed"
  /\ (waited # {}) =>
        /\ waited = {Len(processes)}
        /\ pc = "prompt"
        /\ \A k \in 1..Len(processes) : processes[k].handle # "open"

\* A split that looks for the lexeme "|" only and keeps every word whole.
RECURSIVE SplitPipeUnquoted(_, _, _)
SplitPipeUnquoted(line, k, cur) ==
  IF k > Len(line) THEN <<cur>>
  ELSE IF line[k] = "|" THEN <<cur>> \o SplitPipeUnquoted(line, k + 1, <<>>)
  ELSE SplitPipeUnquoted(line, k + 1, Append(cur, line[k]))

\* The number of pipe lexemes of a line.
Pipes(line) == Cardinality({ k \in 1..Len(line) : line[k] = "|" })

\* C17: a line with a pipe character inside quotes or after a backslash
\* parses without an error, and the only stage boundaries are its unquoted
\* pipes: the word stays whole, as an argument or a redirection target.
C17_SplitsOnlyAtUnquotedPipes ==
  (/\ pc = "parsed"
   /\ \E k \in 1..Len(user_input) : user_input[k] \in {QuotedPipe, EscapedPipe}
   /\ LET segs == SplitPipeUnquoted(user_input, 1, <<>>)
      IN \A k \in 1..Len(segs) : ~Dangling(segs[k]))
    => /\ msg = None
       /\ Len(commands) <= Pipes(user_input) + 1

\* The plain tokens of a token list from position k on, in order.
RECURSIVE PlainFrom(_, _)
PlainFrom(toks, k) ==
  IF k > Len(toks) THEN <<>>
  ELSE IF IsPlain(toks, k) THEN <<toks[k]>> \o PlainFrom(toks, k + 1)
  ELSE PlainFrom(toks, k + 1)

\* The plain tokens of each segment from segment k on that has any.
RECURSIVE PlainSegments(_, _)
PlainSegments(segs, k) ==
  IF k > Len(segs) THEN <<>>
  ELSE IF PlainFrom(segs[k], 1) = <<>> THEN PlainSegments(segs, k + 1)
  ELSE <<PlainFrom(segs[k], 1)>> \o PlainSegments(segs, k + 1)

\* C18: when parse_input returns, the args of its stages are, in input
\* order, the plain tokens of each segment that has any (the tokens that
\* are neither a redirection operator nor the token after one), in their
\* order; and it returns, segments without a plain token or not, whenever
\* no segment ends in an operator without target and no pipe is quoted.
C18_StagesArePlainTokens ==
  (pc = "parsed") =>
    /\ (msg = None) =>
          [j \in 1..Len(commands) |-> commands[j].args]
            = PlainSegments(InputSegments, 1)
    /\ (/\ \A k \in 1..Len(InputSegments) : ~Dangling(InputSegments[k])
        /\ \A k \in 1..Len(user_input) :
              user_input[k] \notin {QuotedPipe, EscapedPipe})
         => msg = None

\* A redirection alone, a pipe, and a command: the first segment is
\* dropped, the second is the only stage.
C18_Witness ==
  /\ pc = "parsed"
  /\ user_input = <<">", "f", "|", "echo">>
  /\ msg = None
  /\ Len(commands) = 1
  /\ commands[1].args = <<"echo">>

\* C19: when the loop is back at the prompt after a line, other than by an
\* interrupt, no process spawned for the line has its pipe handle open.
C19_NoPipeLeftOpen ==
  (pc = "prompt" /\ msg # "^C") =>
     \A k \in 1..Len(processes) : processes[k].handle # "open"

\* The stage at hand is an interactive command that the launcher accepts.
AcceptedInteractive ==
  /\ pc = "launch"
  /\ commands[i].args[1] \in interactive_commands
  /\ ~Truthy(commands[i].input_file)
  /\ ~Truthy(commands[i].output_file)
  /\ ~Truthy(commands[i].append_file)
  /\ (last_process = 0 \/ processes[last_process].stdout # "pipe")

\* Where the executor is after a result of Continue for stage i.
Proceeds ==
  /\ pc' = IF i < Len(commands) THEN "launch"
           ELSE IF Len(processes) > 0 THEN "wait" ELSE "prompt"
  /\ i' = IF i < Len(commands) THEN i + 1 ELSE i

\* C20: an accepted interactive command either is spawned in the foreground
\* or fails to start with result Continue; while it is in the foreground
\* the only steps are its exit and an interrupt, no stage is launched and
\* no line is read; its exit, with status zero or not, gives Continue; and
\* after every Continue the executor goes on to the next stage or to the
\* end of the pipeline, with the loop Running.
C20_InteractiveRunsSynchronously ==
  [][ /\ AcceptedInteractive =>
            \/ /\ pc' = "fg"
               /\ spawned' = Append(spawned, commands[i].args[1])
               /\ UNCHANGED <<results, i>>
            \/ /\ results' = Append(results, "Continue")
               /\ msg' \in {"command not found", "Error: exec failed"}
               /\ spawned' = spawned
               /\ Proceeds
      /\ (pc = "fg") =>
            /\ UNCHANGED <<user_input, commands, spawned, processes, cwd, fs>>
            /\ \/ /\ results' = Append(results, "Continue")
                  /\ msg' \in {msg, "Error: non-zero exit status"}
                  /\ Proceeds
               \/ /\ msg' = "^C"
                  /\ pc' = "prompt"
                  /\ UNCHANGED <<results, i>>
            /\ Running'
    ]_vars

\* vi, the first of two stages, has left with a non-zero status, and the
\* executor is about to launch the second stage.
C20_Witness ==
  /\ spawned = <<"vi">>
  /\ results = <<"Continue">>
  /\ msg = "Error: non-zero exit status"
  /\ pc = "launch"
  /\ i = 2

\* The launcher call at hand ends without a child: the program was not
\* found or could not be run, whatever kind of command it is.
SpawnFails ==
  /\ pc = "launch"
  /\ results' # results
  /\ spawned' = spawned
  /\ msg' \in {"command not found", "Error: exec failed"}

\* C21 as stated: after any stage that fails to spawn the executor launches
\* nothing more, it is at the prompt with the stage index where it was.
C21_NoLaunchAfterSpawnFailure ==
  [][ SpawnFails => (pc' = "prompt" /\ i' = i) ]_vars

\* C21: after a pipeable external stage fails to spawn (launch result
\* Failed) the executor is at the prompt, the failed stage being the last
\* one the launcher was called for; from there the only step is the next
\* prompt, which spawns nothing, opens and creates no file and leaves the
\* working directory and the loop as they are.
C21_NoLaunchAfterFailed ==
  [][ /\ (pc = "launch" /\ results' = Append(results, "Failed")) =>
            /\ pc' = "prompt"
            /\ i' = i
            /\ UNCHANGED <<spawned, cwd, last_process>>
      /\ (\E k \in 1..Len(results) : results[k] = "Failed") =>
            /\ pc = "prompt"
            /\ results[Len(results)] = "Failed"
            /\ Len(results) = i
            /\ \A t \in opened :
                  \E k \in 1..i :
                     t[1] \in {commands[k].input_file,
                               commands[k].output_file,
                               commands[k].append_file}
            /\ pc' = "read"
            /\ UNCHANGED <<cwd, fs, content, farewell>>
    ]_vars

\* The second of three stages failed to spawn; the third, a cd, did not
\* run and the working directory is the one the shell started in.
C21_Witness ==
  /\ pc = "prompt"
  /\ Len(commands) = 3
  /\ results = <<"Spawned", "Failed">>
  /\ commands[3].args = <<"cd">>
  /\ cwd = StartDir

====
